---- MODULE Spec2Model ----
(***************************************************************************)
(* Research_Ideation_Agent: the command-line pipeline of src/main.py and   *)
(* the agents it drives (collector, generator, evaluator, translator,      *)
(* report generator).  Every external call (HTTP, vector store, language   *)
(* model, file system) is a step whose outcome the environment chooses.    *)
(***************************************************************************)
EXTENDS Integers, Sequences, FiniteSets, TLC

\* ---------------------------------------------------------------- bounds
\* Largest number of papers the metadata API returns in a modelled run.
MaxPapers == 2
\* Largest number of topics the generator model returns in a modelled run.
MaxTopics == 2
\* Longest topic list evaluate_topics is called on directly.
MaxEvalTopics == 3

\* ------------------------------------------------------- program constants
VECTOR_DB_BATCH_SIZE == 1
max_retries == 3
MODEL_EMBEDDING == "nomic-embed-text:latest"
MODEL_GENERATOR == "deepseek-v3.1:671b-cloud"
MODEL_EVALUATOR == "gpt-oss:20b"
\* getattr(config, 'MODEL_TRANSLATOR', config.MODEL_EVALUATOR): config.py
\* defines no MODEL_TRANSLATOR, so the default is taken.
model_translator == MODEL_EVALUATOR

\* The stages main() invokes, in program order.
StageOrder ==
  << "fetch_papers", "create_vector_db", "generate_topics", "evaluate_topics",
     "generate_html_report_en", "translate_topics", "generate_html_report_ko" >>

VARIABLES
  pc,                \* position in main() / in the function it is executing
  papers,            \* main: list returned by fetch_papers (paper ids)
  vector_db,         \* collector.vector_db / main's vector_db: "None" or "Chroma"
  store,             \* documents of this run held by the Chroma collection
  i,                 \* create_vector_db: start index of the current batch
  attempt,           \* create_vector_db: attempt number of the current batch
  dbLog,             \* create_vector_db: what the current call did, in order
  skipped,           \* start indices of the batches reported "Skipping."
  context,           \* generate_topics: retrieval context ("docs" / "none")
  raw_content,       \* generate_topics: kind of text the generation call gave
  topics,            \* result.topics while generating, then main's topics
  idx,               \* position of the running for-loop over topics
  responses,         \* evaluate_topics: what chain.invoke gave for each topic
  evaluated_topics,  \* evaluate_topics' list, then main's evaluated_topics
  translated_topics, \* translate_topics' list, then main's translated_topics
  reports,           \* HTML reports written so far, in order
  stages,            \* stages main() has invoked so far, in order
  running,           \* the stage that has been invoked and has not returned
  called,            \* kinds of model call made so far
  unloads,           \* model names of the unload requests issued, in order
  unloadOk,          \* whether the latest unload request succeeded
  exitCode,          \* -1 while running, then the process exit status
  exitVia,           \* how the process ended
  lookups,           \* generate_topics: whether each topic's lookup succeeded
  translations,      \* translate_topics: whether each entry's call succeeded
  callCount,         \* generation / evaluation / translation calls made so far
  response,          \* fetch_papers alone: what the metadata API answers
  fetched,           \* fetch_papers alone: the list it returned
  inverted_index,    \* _reconstruct_abstract alone: its argument
  abstract,          \* _reconstruct_abstract alone: the text it returned
  line,              \* RAG.py: the line input() returned last
  query,             \* RAG.py: the line just read, stripped
  stream,            \* RAG.py: chunks the chain has yet to yield
  printed,           \* RAG.py: what the chat loop wrote to the terminal
  prompts,           \* RAG.py: questions the chain was started on, in order
  csv,               \* fetch_papers alone: the rows of the CSV file it wrote
  metadata_docs,     \* create_vector_db: the documents made of the papers
  html               \* generate_html_report alone: the cards of the document

collectorVars == << papers, vector_db, store, i, attempt, dbLog, skipped >>
generatorVars == << context, raw_content, topics >>
evaluatorVars == << responses, evaluated_topics >>
outputVars    == << translated_topics, reports >>
driverVars    == << stages, running, called, unloads, unloadOk, exitCode, exitVia >>
ghostVars     == << lookups, translations, callCount >>
\* state of the entry points other than main.py and of single functions
reportVars    == << metadata_docs, html >>
harnessVars   == << response, fetched, inverted_index, abstract, line, query,
                    stream, printed, prompts, csv, reportVars >>
\* everything main.py and the agents it drives own, but the position
pipelineVars  == << collectorVars, generatorVars, idx, evaluatorVars, outputVars,
                    driverVars, ghostVars >>
vars == << pc, pipelineVars, harnessVars >>

\* ---------------------------------------------------------------- helpers
Min(a, b) == IF a < b THEN a ELSE b

IsPrefix(s, t) == Len(s) <= Len(t) /\ \A n \in 1..Len(s) : s[n] = t[n]

\* range(1, n+1) as a list
Ids(n) == [j \in 1..n |-> j]

\* sys.exit(code), or an exception nobody catches (Python then exits 1)
Exit(code, via) ==
  /\ pc' = "exited"
  /\ exitCode' = code
  /\ exitVia' = via

\* ------------------------------------------------------- agents/collector.py
\* What fetch_papers returns: [] when the request or its parsing raises, and
\* also when os.makedirs in save_papers_to_csv raises (it is outside that
\* function's own try, so fetch_papers' except catches it); save_papers_to_csv
\* returns at once, touching nothing, for an empty list.
fetch_returns(requestOk, survivors, csvDirOk) ==
  IF ~requestOk THEN << >>
  ELSE IF survivors # << >> /\ ~csvDirOk THEN << >>
  ELSE survivors

\* fetch_papers as main sees it: the papers are told apart by their number
fetch_papers(requestOk, n, csvDirOk) == fetch_returns(requestOk, Ids(n), csvDirOk)

\* ---- fetch_papers in detail, lines 35-78
\* A value that may be None is a tuple of length 0 (None) or 1 (the value).
None == << >>
Some(v) == << v >>
\* Python's truth of an optional string or list: neither None nor empty
Truthy(o, empty) == o # None /\ o[1] # empty

AUTHORS_LIMIT == 3
INSTITUTIONS_LIMIT == 3

\* Code points of the characters that occur in the words of the inputs
ord(c) == CASE c = " " -> 32 [] c = "a" -> 97 [] c = "b" -> 98

\* a < b for two strings (sequences of characters), as Python compares them
RECURSIVE str_less(_, _)
str_less(a, b) ==
  IF b = << >> THEN FALSE
  ELSE IF a = << >> THEN TRUE
  ELSE IF ord(Head(a)) # ord(Head(b)) THEN ord(Head(a)) < ord(Head(b))
  ELSE str_less(Tail(a), Tail(b))

\* (pos, word) < (pos, word) for two tuples
tuple_less(p, q) == p.pos < q.pos \/ (p.pos = q.pos /\ str_less(p.word, q.word))

\* lines 104-105: one (pos, word) tuple per position of each word, in the
\* order of the dictionary's items
RECURSIVE tuples_of_word(_, _)
tuples_of_word(word, positions) ==
  IF positions = << >> THEN << >>
  ELSE << [pos |-> Head(positions), word |-> word] >>
         \o tuples_of_word(word, Tail(positions))

RECURSIVE word_positions(_)
word_positions(items) ==
  IF items = << >> THEN << >>
  ELSE tuples_of_word(Head(items).word, Head(items).positions)
         \o word_positions(Tail(items))

\* insert_tuple leaving the list in the order of the dictionary
insert_tuple_unsorted(sorted, e) == Append(sorted, e)

\* One step of word_positions.sort(): e goes behind the tuples not above it
insert_tuple(sorted, e) ==
  LET ahead == Cardinality({ n \in 1..Len(sorted) : ~tuple_less(e, sorted[n]) })
  IN  SubSeq(sorted, 1, ahead) \o << e >> \o SubSeq(sorted, ahead + 1, Len(sorted))

RECURSIVE sorted_prefix(_, _)
sorted_prefix(list, n) ==
  IF n = 0 THEN << >> ELSE insert_tuple(sorted_prefix(list, n - 1), list[n])

\* line 106
sorted_tuples(list) == sorted_prefix(list, Len(list))

\* " ".join(words)
RECURSIVE join_spaces(_)
join_spaces(words) ==
  IF words = << >> THEN << >>
  ELSE IF Len(words) = 1 THEN words[1]
  ELSE words[1] \o << " " >> \o join_spaces(Tail(words))

\* _reconstruct_abstract, lines 101-107
reconstruct_abstract(index) ==
  IF ~Truthy(index, << >>) THEN << >>
  ELSE LET sorted == sorted_tuples(word_positions(index[1]))
       IN  join_spaces([n \in 1..Len(sorted) |-> sorted[n].word])

\* lines 51-55: the display names of the authorships that have one
RECURSIVE author_names(_)
author_names(authorships) ==
  IF authorships = << >> THEN << >>
  ELSE (IF Truthy(Head(authorships).display_name, << >>)
          THEN << Head(authorships).display_name[1] >> ELSE << >>)
         \o author_names(Tail(authorships))

\* lines 56-59: the names of a list of institutions added to those collected,
\* a name already collected or missing being passed over
RECURSIVE add_institutions(_, _)
add_institutions(institutions, insts) ==
  IF insts = << >> THEN institutions
  ELSE LET inst_name == Head(insts)
           known == { institutions[n] : n \in 1..Len(institutions) }
       IN  add_institutions(
             IF Truthy(inst_name, << >>) /\ inst_name[1] \notin known
               THEN Append(institutions, inst_name[1]) ELSE institutions,
             Tail(insts))

RECURSIVE collect_institutions(_, _)
collect_institutions(institutions, authorships) ==
  IF authorships = << >> THEN institutions
  ELSE collect_institutions(add_institutions(institutions, Head(authorships).institutions),
                            Tail(authorships))

\* first_of without the cut
first_of_uncapped(list, limit) == list

\* list[:limit]
first_of(list, limit) == SubSeq(list, 1, Min(limit, Len(list)))

\* keeps dropping a result only for its title
keeps_any_abstract(result) == Truthy(result.title, "")

\* line 63: if title and abstract
keeps(result) ==
  Truthy(result.title, "") /\ reconstruct_abstract(result.abstract_inverted_index) # << >>

\* lines 64-71: the paper made of a result
paper_of(result) ==
  [ title |-> result.title[1],
    abstract |-> reconstruct_abstract(result.abstract_inverted_index),
    url |-> result.id,
    authors |-> author_names(first_of(result.authorships, AUTHORS_LIMIT)),
    institutions |->
      first_of(collect_institutions(<< >>, first_of(result.authorships, AUTHORS_LIMIT)),
               INSTITUTIONS_LIMIT) ]

\* lines 41-71: the loop over the results
RECURSIVE papers_of(_)
papers_of(results) ==
  IF results = << >> THEN << >>
  ELSE (IF keeps(Head(results)) THEN << paper_of(Head(results)) >> ELSE << >>)
         \o papers_of(Tail(results))

\* sep.join(strings), strings being sequences of characters
RECURSIVE join(_, _)
join(sep, strings) ==
  IF strings = << >> THEN << >>
  ELSE IF Len(strings) = 1 THEN strings[1]
  ELSE strings[1] \o sep \o join(sep, Tail(strings))

\* save_papers_to_csv, lines 92-96: the row of a paper; the two lists become
\* one cell each, the names joined with "; "
csv_row(paper) ==
  [ url |-> paper.url,
    authors |-> join(<< ";", " " >>, paper.authors),
    institutions |-> join(<< ";", " " >>, paper.institutions) ]

\* save_papers_to_csv, lines 80-99: the rows of the file it leaves; nothing
\* is written for an empty list, when the directory cannot be created, or
\* when the file cannot be opened.
save_papers_to_csv(papers_found, csvDirOk, csvWriteOk) ==
  IF papers_found # << >> /\ csvDirOk /\ csvWriteOk
    THEN [n \in 1..Len(papers_found) |-> csv_row(papers_found[n])]
    ELSE << >>

\* fetch_papers called alone on what the API answers
FetchCall ==
  /\ pc = "fetch_call"
  /\ fetched' = fetch_returns(response.outcome = "ok", papers_of(response.results),
                              response.csvDirOk)
  /\ csv' = IF response.outcome = "ok"
              THEN save_papers_to_csv(papers_of(response.results), response.csvDirOk,
                                      response.csvWriteOk)
              ELSE << >>
  /\ pc' = "fetch_returned"
  /\ UNCHANGED << response, inverted_index, abstract, line, query, stream, printed,
                  prompts >>
  /\ UNCHANGED pipelineVars
  /\ UNCHANGED reportVars

\* _reconstruct_abstract called alone
ReconstructCall ==
  /\ pc = "abstract_call"
  /\ abstract' = reconstruct_abstract(inverted_index)
  /\ pc' = "abstract_returned"
  /\ UNCHANGED << response, fetched, inverted_index, line, query, stream, printed,
                  prompts >>
  /\ UNCHANGED pipelineVars
  /\ UNCHANGED << csv, reportVars >>

\* documents[i : i + batch_size], as the set of its documents
Batch(documents, start) ==
  { documents[j] : j \in (start + 1)..Min(start + VECTOR_DB_BATCH_SIZE, Len(documents)) }

\* main, line 45: papers = collector.fetch_papers(keyword, limit)
FetchPapers ==
  /\ pc = "fetch"
  /\ \E requestOk \in BOOLEAN, n \in 0..MaxPapers, csvDirOk \in BOOLEAN :
       papers' = fetch_papers(requestOk, n, csvDirOk)
  /\ stages' = Append(stages, "fetch_papers")
  /\ pc' = "check_papers"
  /\ UNCHANGED << vector_db, store, i, attempt, dbLog, skipped, generatorVars, idx,
                  evaluatorVars, outputVars, running, called, unloads, unloadOk,
                  exitCode, exitVia >>
  /\ UNCHANGED ghostVars
  /\ UNCHANGED harnessVars

\* CheckPapers without the early abort: create_vector_db is called anyway
CheckPapersNoAbort ==
  /\ pc = "check_papers"
  /\ pc' = "cvd_begin"
  /\ stages' = Append(stages, "create_vector_db")
  /\ running' = "create_vector_db"
  /\ UNCHANGED << collectorVars, generatorVars, idx, evaluatorVars, outputVars,
                  called, unloads, unloadOk, exitCode, exitVia >>
  /\ UNCHANGED ghostVars
  /\ UNCHANGED harnessVars

\* main, lines 47-51: the first early abort, else the call of create_vector_db
CheckPapers ==
  /\ pc = "check_papers"
  /\ IF papers = << >>
       THEN /\ Exit(1, "no_papers")
            /\ UNCHANGED << stages, running >>
       ELSE /\ pc' = "cvd_begin"
            /\ stages' = Append(stages, "create_vector_db")
            /\ running' = "create_vector_db"
            /\ UNCHANGED << exitCode, exitVia >>
  /\ UNCHANGED << collectorVars, generatorVars, idx, evaluatorVars, outputVars,
                  called, unloads, unloadOk >>
  /\ UNCHANGED ghostVars
  /\ UNCHANGED harnessVars

\* create_vector_db, lines 110-146: None for no papers; else the documents are
\* built and the Chroma collection is opened (outside any try).
CvdBegin ==
  /\ pc = "cvd_begin"
  /\ IF papers = << >>
       THEN /\ vector_db' = "None"
            /\ pc' = "check_db"
            /\ running' = ""
            /\ UNCHANGED << i, exitCode, exitVia >>
       ELSE \E chromaOk \in BOOLEAN :
              IF chromaOk
                THEN /\ vector_db' = "Chroma"
                     /\ i' = 0
                     /\ pc' = "cvd_loop"
                     /\ UNCHANGED << running, exitCode, exitVia >>
                ELSE /\ Exit(1, "uncaught")
                     /\ UNCHANGED << vector_db, i, running >>
  /\ UNCHANGED << papers, store, attempt, dbLog, skipped, generatorVars, idx,
                  evaluatorVars, outputVars, stages, called, unloads, unloadOk >>
  /\ UNCHANGED ghostVars
  /\ UNCHANGED harnessVars

\* CvdNextBatch returning None when no batch was inserted
CvdNextBatchNoneForEmptyStore ==
  /\ pc = "cvd_loop"
  /\ IF i < Len(papers)
       THEN /\ attempt' = 0
            /\ pc' = "cvd_attempt"
            /\ UNCHANGED << dbLog, running, vector_db >>
       ELSE /\ attempt' = 0
            /\ dbLog' = << >>
            /\ pc' = "check_db"
            /\ running' = ""
            /\ vector_db' = IF store = {} THEN "None" ELSE vector_db
  /\ UNCHANGED << papers, store, i, skipped, generatorVars, idx,
                  evaluatorVars, outputVars, stages, called, unloads, unloadOk,
                  exitCode, exitVia >>
  /\ UNCHANGED ghostVars
  /\ UNCHANGED harnessVars

\* create_vector_db, lines 148-153 and 164-165: the head of the batch loop
CvdNextBatch ==
  /\ pc = "cvd_loop"
  /\ IF i < Len(papers)
       THEN /\ attempt' = 0
            /\ pc' = "cvd_attempt"
            /\ UNCHANGED << dbLog, running >>
       ELSE \* return self.vector_db; the call's locals are gone
            /\ attempt' = 0
            /\ dbLog' = << >>
            /\ pc' = "check_db"
            /\ running' = ""
  /\ UNCHANGED << papers, vector_db, store, i, skipped, generatorVars, idx,
                  evaluatorVars, outputVars, stages, called, unloads, unloadOk,
                  exitCode, exitVia >>
  /\ UNCHANGED ghostVars
  /\ UNCHANGED harnessVars

\* AfterFailedAttempt giving up one attempt early
AfterFailedAttemptGivesUpEarly(att) ==
  IF att < max_retries - 2 THEN "sleep" ELSE "skip"

\* What happens after add_documents raised on this attempt (lines 157-162)
AfterFailedAttempt(att) ==
  IF att < max_retries - 1 THEN "sleep" ELSE "skip"

\* AddDocumentsOk without the break: the attempt loop goes on
AddDocumentsOkNoBreak ==
  /\ pc = "cvd_attempt"
  /\ store' = store \cup Batch(papers, i)
  /\ dbLog' = Append(dbLog, [ev |-> "added", batch |-> i, attempt |-> attempt])
  /\ called' = called \cup {"embed"}
  /\ IF attempt < max_retries - 1
       THEN /\ attempt' = attempt + 1
            /\ UNCHANGED << i, pc >>
       ELSE /\ i' = i + VECTOR_DB_BATCH_SIZE
            /\ pc' = "cvd_loop"
            /\ UNCHANGED attempt
  /\ UNCHANGED << papers, vector_db, skipped, generatorVars, idx,
                  evaluatorVars, outputVars, stages, running, unloads, unloadOk,
                  exitCode, exitVia >>
  /\ UNCHANGED ghostVars
  /\ UNCHANGED harnessVars

\* create_vector_db, lines 154-156: add_documents succeeds, break
AddDocumentsOk ==
  /\ pc = "cvd_attempt"
  /\ store' = store \cup Batch(papers, i)
  /\ dbLog' = Append(dbLog, [ev |-> "added", batch |-> i, attempt |-> attempt])
  /\ called' = called \cup {"embed"}
  /\ i' = i + VECTOR_DB_BATCH_SIZE
  /\ pc' = "cvd_loop"
  /\ UNCHANGED << papers, vector_db, attempt, skipped, generatorVars, idx,
                  evaluatorVars, outputVars, stages, running, unloads, unloadOk,
                  exitCode, exitVia >>
  /\ UNCHANGED ghostVars
  /\ UNCHANGED harnessVars

\* create_vector_db, lines 157-162: add_documents raises
AddDocumentsFail ==
  /\ pc = "cvd_attempt"
  /\ called' = called \cup {"embed"}
  /\ IF AfterFailedAttempt(attempt) = "sleep"
       THEN /\ dbLog' = Append(dbLog, [ev |-> "failed", batch |-> i, attempt |-> attempt])
            /\ pc' = "cvd_sleep"
            /\ UNCHANGED << i, skipped >>
       ELSE \* "Failed batch ... Skipping."; the attempt loop is exhausted
            /\ dbLog' = dbLog \o << [ev |-> "failed", batch |-> i, attempt |-> attempt],
                                    [ev |-> "skipped", batch |-> i, attempt |-> attempt] >>
            /\ skipped' = skipped \cup {i}
            /\ i' = i + VECTOR_DB_BATCH_SIZE
            /\ pc' = "cvd_loop"
  /\ UNCHANGED << papers, vector_db, store, attempt, generatorVars, idx, evaluatorVars,
                  outputVars, stages, running, unloads, unloadOk, exitCode, exitVia >>
  /\ UNCHANGED ghostVars
  /\ UNCHANGED harnessVars

\* create_vector_db, line 160: time.sleep(5), then the next attempt
Sleep ==
  /\ pc = "cvd_sleep"
  /\ dbLog' = Append(dbLog, [ev |-> "slept", batch |-> i, attempt |-> attempt])
  /\ attempt' = attempt + 1
  /\ pc' = "cvd_attempt"
  /\ UNCHANGED << papers, vector_db, store, i, skipped, generatorVars, idx,
                  evaluatorVars, outputVars, driverVars >>
  /\ UNCHANGED ghostVars
  /\ UNCHANGED harnessVars

\* --------------------------------------------------------------- main.py
\* unload_model without its try: a failed request ends the process
unload_model_raising(at, model_name, next) ==
  /\ pc = at
  /\ IF model_name = ""
       THEN /\ pc' = next
            /\ UNCHANGED << unloads, unloadOk, exitCode, exitVia >>
       ELSE \E ok \in BOOLEAN :
              /\ unloads' = Append(unloads, model_name)
              /\ unloadOk' = ok
              /\ IF ok THEN /\ pc' = next
                            /\ UNCHANGED << exitCode, exitVia >>
                       ELSE Exit(1, "uncaught")
  /\ UNCHANGED << collectorVars, generatorVars, idx, evaluatorVars, outputVars,
                  stages, running, called >>
  /\ UNCHANGED ghostVars
  /\ UNCHANGED harnessVars

\* unload_model(model_name), lines 11-27, called at position `at`: the request
\* is posted; whether it succeeds or raises, the function returns.
unload_model(at, model_name, next) ==
  /\ pc = at
  /\ IF model_name = ""
       THEN UNCHANGED << unloads, unloadOk >>
       ELSE \E ok \in BOOLEAN :
              /\ unloads' = Append(unloads, model_name)
              /\ unloadOk' = ok
  /\ pc' = next
  /\ UNCHANGED << collectorVars, generatorVars, idx, evaluatorVars, outputVars,
                  stages, running, called, exitCode, exitVia >>
  /\ UNCHANGED ghostVars
  /\ UNCHANGED harnessVars

\* main, lines 53-59: the vector_db check, then on to the embedding unload
CheckDb ==
  /\ pc = "check_db"
  /\ IF vector_db = "None"
       THEN Exit(1, "no_vector_db")
       ELSE /\ pc' = "unload_embedding"
            /\ UNCHANGED << exitCode, exitVia >>
  /\ UNCHANGED << collectorVars, generatorVars, idx, evaluatorVars, outputVars,
                  stages, running, called, unloads, unloadOk >>
  /\ UNCHANGED ghostVars
  /\ UNCHANGED harnessVars

\* main, line 59
UnloadEmbedding == unload_model("unload_embedding", MODEL_EMBEDDING, "generate")

\* ------------------------------------------------------- agents/generator.py
\* A parsed ResearchTopic: its text stands as (id, lang); related_papers
\* defaults to the empty list.
ResearchTopic(n) == [id |-> n, lang |-> "en", related_papers |-> << >>]

\* vector_db.similarity_search(title, k=1): at most one document of the store
similarity_search(docs) ==
  IF docs = {} THEN { << >> } ELSE { << d >> : d \in docs }

\* generate_topics, lines 55-82: retrieval for the prompt context; a failure
\* is caught and replaced by the fixed "no context" strings.
GenRetrieve ==
  /\ pc = "generate"
  /\ stages' = Append(stages, "generate_topics")
  /\ running' = "generate_topics"
  /\ called' = called \cup {"embed"}
  /\ \E retrieved \in BOOLEAN : context' = IF retrieved THEN "docs" ELSE "none"
  /\ pc' = "gen_invoke"
  /\ UNCHANGED << collectorVars, raw_content, topics, idx, evaluatorVars, outputVars,
                  unloads, unloadOk, exitCode, exitVia >>
  /\ UNCHANGED ghostVars
  /\ UNCHANGED harnessVars

\* parsed_topics without the schema validation
parsed_topics_unvalidated(kind, n) ==
  IF kind \in {"topic_list", "bad_schema"} THEN [j \in 1..n |-> ResearchTopic(j)] ELSE << >>

\* What the generation call and the parse of its text leave (lines 140-171,
\* 193-195): the parsed topics, or [] when the call raised, the cleaned text
\* is not JSON, or the JSON fails the TopicList schema.
parsed_topics(kind, n) ==
  IF kind = "topic_list" THEN [j \in 1..n |-> ResearchTopic(j)] ELSE << >>

\* generate_topics, lines 140-171: the single chain.invoke and the parse
GenInvoke ==
  /\ pc = "gen_invoke"
  /\ called' = called \cup {"generate"}
  /\ \E kind \in {"raised", "not_json", "bad_schema", "topic_list"}, n \in 0..MaxTopics :
       /\ raw_content' = kind
       /\ topics' = parsed_topics(kind, n)
       /\ IF kind = "topic_list"
            THEN /\ idx' = 1
                 /\ pc' = "gen_map"
                 /\ UNCHANGED << context, running >>
            ELSE \* return []
                 /\ idx' = 0
                 /\ context' = "none"
                 /\ running' = ""
                 /\ pc' = "check_topics"
  /\ UNCHANGED << collectorVars, evaluatorVars, outputVars, stages, unloads, unloadOk,
                  exitCode, exitVia >>
  /\ callCount' = [callCount EXCEPT !.generate = @ + 1]
  /\ lookups' = << >>
  /\ UNCHANGED translations
  /\ UNCHANGED harnessVars

\* generate_topics, lines 176-186: the lookup for one topic succeeds
GenMapOk ==
  /\ pc = "gen_map"
  /\ idx <= Len(topics)
  /\ called' = called \cup {"embed"}
  /\ \E similar_docs \in similarity_search(store) :
       topics' = [topics EXCEPT ![idx].related_papers = similar_docs]
  /\ idx' = idx + 1
  /\ UNCHANGED << pc, collectorVars, context, raw_content, evaluatorVars, outputVars,
                  stages, running, unloads, unloadOk, exitCode, exitVia >>
  /\ lookups' = Append(lookups, TRUE)
  /\ UNCHANGED << translations, callCount >>
  /\ UNCHANGED harnessVars

\* GenMapFail letting the exception reach the outer handler, which returns []
GenMapFailAbortsBatch ==
  /\ pc = "gen_map"
  /\ idx <= Len(topics)
  /\ called' = called \cup {"embed"}
  /\ topics' = << >>
  /\ idx' = 0
  /\ context' = "none"
  /\ running' = ""
  /\ pc' = "check_topics"
  /\ UNCHANGED << collectorVars, raw_content, evaluatorVars, outputVars,
                  stages, unloads, unloadOk, exitCode, exitVia >>
  /\ lookups' = Append(lookups, FALSE)
  /\ UNCHANGED << translations, callCount >>
  /\ UNCHANGED harnessVars

\* generate_topics, lines 187-189: the lookup for one topic raises
GenMapFail ==
  /\ pc = "gen_map"
  /\ idx <= Len(topics)
  /\ called' = called \cup {"embed"}
  /\ topics' = [topics EXCEPT ![idx].related_papers = << >>]
  /\ idx' = idx + 1
  /\ UNCHANGED << pc, collectorVars, context, raw_content, evaluatorVars, outputVars,
                  stages, running, unloads, unloadOk, exitCode, exitVia >>
  /\ lookups' = Append(lookups, FALSE)
  /\ UNCHANGED << translations, callCount >>
  /\ UNCHANGED harnessVars

\* generate_topics, line 191: return result.topics
GenReturn ==
  /\ pc = "gen_map"
  /\ idx > Len(topics)
  /\ idx' = 0
  /\ context' = "none"
  /\ running' = ""
  /\ pc' = "check_topics"
  /\ UNCHANGED << collectorVars, raw_content, topics, evaluatorVars, outputVars,
                  stages, called, unloads, unloadOk, exitCode, exitVia >>
  /\ UNCHANGED ghostVars
  /\ UNCHANGED harnessVars

\* CheckTopics going straight on to the English report
CheckTopicsSkipsEvaluation ==
  /\ pc = "check_topics"
  /\ IF topics = << >>
       THEN Exit(1, "no_topics")
       ELSE /\ pc' = "report_en"
            /\ UNCHANGED << exitCode, exitVia >>
  /\ UNCHANGED << collectorVars, generatorVars, idx, evaluatorVars, outputVars,
                  stages, running, called, unloads, unloadOk >>
  /\ UNCHANGED ghostVars
  /\ UNCHANGED harnessVars

\* main, lines 68-77: the second early abort, else on to the generator unload
\* (made only when the generator and evaluator models differ)
CheckTopics ==
  /\ pc = "check_topics"
  /\ IF topics = << >>
       THEN Exit(1, "no_topics")
       ELSE /\ pc' = IF MODEL_GENERATOR # MODEL_EVALUATOR
                       THEN "unload_generator" ELSE "evaluate"
            /\ UNCHANGED << exitCode, exitVia >>
  /\ UNCHANGED << collectorVars, generatorVars, idx, evaluatorVars, outputVars,
                  stages, running, called, unloads, unloadOk >>
  /\ UNCHANGED ghostVars
  /\ UNCHANGED harnessVars

\* main, line 77
UnloadGenerator == unload_model("unload_generator", MODEL_GENERATOR, "evaluate")

\* ------------------------------------------------------- agents/evaluator.py
\* EvaluationResult: four int fields without range constraints, and the
\* reasoning text (kept with the language it is written in).
EvaluationResult(o, f, im, t, text) ==
  [ originality_score |-> o, feasibility_score |-> f, impact_score |-> im,
    total_score |-> t, reasoning |-> [text |-> text, lang |-> "en"] ]

\* The parsed evaluations the evaluator model may give for a topic: each
\* criterion triple with each reported total.
ScoreTriples == { <<2, 3, 4>>, <<1, 1, 1>>, <<0, 0, 0>>, <<7, 0, 5>> }
ReportedTotals == { 0, 3, 7, 9 }
EvalResponses ==
  { EvaluationResult(s[1], s[2], s[3], t, "model reasoning") :
      s \in ScoreTriples, t \in ReportedTotals }
\* The ones drawn in a run of the whole pipeline.
MainEvalResponses ==
  { EvaluationResult(2, 3, 4, 0, "model reasoning"),
    EvaluationResult(7, 0, 5, 3, "model reasoning") }

\* lines 81-84: the record substituted when the call or its parsing raises
default_eval == EvaluationResult(1, 1, 1, 3, "Evaluation failed.")

\* with_total recomputing every total from the scores
with_total_always_sum(evaluation) ==
  [evaluation EXCEPT !.total_score =
     evaluation.originality_score + evaluation.feasibility_score
       + evaluation.impact_score]

\* lines 74-75: a zero total is replaced by the sum of the three scores
with_total(evaluation) ==
  IF evaluation.total_score = 0
    THEN [evaluation EXCEPT !.total_score =
            evaluation.originality_score + evaluation.feasibility_score
              + evaluation.impact_score]
    ELSE evaluation

EvaluatedTopic(topic, evaluation) == [topic |-> topic, evaluation |-> evaluation]

\* insert_desc putting e ahead of the elements with an equal key
insert_desc_ties_first(sorted, e) ==
  LET ahead == Cardinality({ n \in 1..Len(sorted) :
                 sorted[n].evaluation.total_score > e.evaluation.total_score })
  IN  SubSeq(sorted, 1, ahead) \o << e >> \o SubSeq(sorted, ahead + 1, Len(sorted))

\* One step of list.sort(key=total_score, reverse=True): e goes behind every
\* element already placed whose key is greater than or equal to its own.
insert_desc(sorted, e) ==
  LET ahead == Cardinality({ n \in 1..Len(sorted) :
                 sorted[n].evaluation.total_score >= e.evaluation.total_score })
  IN  SubSeq(sorted, 1, ahead) \o << e >> \o SubSeq(sorted, ahead + 1, Len(sorted))

RECURSIVE sort_prefix(_, _)
sort_prefix(list, n) ==
  IF n = 0 THEN << >> ELSE insert_desc(sort_prefix(list, n - 1), list[n])

\* line 88: evaluated_topics.sort(key=lambda x: x.evaluation.total_score,
\* reverse=True); Python's sort is stable, also with reverse=True.
sort_by_total_desc(list) == sort_prefix(list, Len(list))

\* main, lines 83-84, and evaluate_topics, lines 36-61
EvaluateBegin ==
  /\ pc = "evaluate"
  /\ stages' = Append(stages, "evaluate_topics")
  /\ running' = "evaluate_topics"
  /\ evaluated_topics' = << >>
  /\ responses' = << >>
  /\ idx' = 1
  /\ pc' = "eval_loop"
  /\ UNCHANGED << collectorVars, generatorVars, outputVars, called, unloads, unloadOk,
                  exitCode, exitVia >>
  /\ UNCHANGED ghostVars
  /\ UNCHANGED harnessVars

\* evaluate_topics, lines 64-77: the call for one topic returns a parsed result
EvaluateOk(Responses) ==
  /\ pc = "eval_loop"
  /\ idx <= Len(topics)
  /\ called' = called \cup {"evaluate"}
  /\ \E evaluation \in Responses :
       /\ responses' = Append(responses, [ok |-> TRUE, evaluation |-> evaluation])
       /\ evaluated_topics' =
            Append(evaluated_topics, EvaluatedTopic(topics[idx], with_total(evaluation)))
  /\ idx' = idx + 1
  /\ UNCHANGED << pc, collectorVars, generatorVars, outputVars, stages, running,
                  unloads, unloadOk, exitCode, exitVia >>
  /\ callCount' = [callCount EXCEPT !.evaluate = @ + 1]
  /\ UNCHANGED << lookups, translations >>
  /\ UNCHANGED harnessVars

\* EvaluateFail dropping the topic instead of substituting default_eval
EvaluateFailDropsTopic ==
  /\ pc = "eval_loop"
  /\ idx <= Len(topics)
  /\ called' = called \cup {"evaluate"}
  /\ responses' = Append(responses, [ok |-> FALSE, evaluation |-> default_eval])
  /\ idx' = idx + 1
  /\ UNCHANGED << pc, collectorVars, generatorVars, evaluated_topics, outputVars,
                  stages, running, unloads, unloadOk, exitCode, exitVia >>
  /\ callCount' = [callCount EXCEPT !.evaluate = @ + 1]
  /\ UNCHANGED << lookups, translations >>
  /\ UNCHANGED harnessVars

\* EvaluateFail issuing the call for the same topic again
EvaluateFailRetries ==
  /\ pc = "eval_loop"
  /\ idx <= Len(topics)
  /\ callCount.evaluate <= Len(topics)
  /\ called' = called \cup {"evaluate"}
  /\ UNCHANGED << pc, idx, collectorVars, generatorVars, evaluatorVars, outputVars,
                  stages, running, unloads, unloadOk, exitCode, exitVia >>
  /\ callCount' = [callCount EXCEPT !.evaluate = @ + 1]
  /\ UNCHANGED << lookups, translations >>
  /\ UNCHANGED harnessVars

\* evaluate_topics, lines 78-85: the call or the parsing of its output raises
EvaluateFail ==
  /\ pc = "eval_loop"
  /\ idx <= Len(topics)
  /\ called' = called \cup {"evaluate"}
  /\ responses' = Append(responses, [ok |-> FALSE, evaluation |-> default_eval])
  /\ evaluated_topics' = Append(evaluated_topics, EvaluatedTopic(topics[idx], default_eval))
  /\ idx' = idx + 1
  /\ UNCHANGED << pc, collectorVars, generatorVars, outputVars, stages, running,
                  unloads, unloadOk, exitCode, exitVia >>
  /\ callCount' = [callCount EXCEPT !.evaluate = @ + 1]
  /\ UNCHANGED << lookups, translations >>
  /\ UNCHANGED harnessVars

\* evaluate_topics, lines 87-91: sort, return
EvaluateReturn ==
  /\ pc = "eval_loop"
  /\ idx > Len(topics)
  /\ evaluated_topics' = sort_by_total_desc(evaluated_topics)
  /\ idx' = 0
  /\ running' = ""
  /\ pc' = "report_en"
  /\ UNCHANGED << collectorVars, generatorVars, responses, outputVars, stages, called,
                  unloads, unloadOk, exitCode, exitVia >>
  /\ UNCHANGED ghostVars
  /\ UNCHANGED harnessVars

\* ------------------------------------------- main.py, steps 4 and 5, cleanup
\* main, lines 90-93: os.makedirs and generate_html_report for the English
\* report, neither inside a try: a failure of either ends the process with a
\* traceback (exit status 1).
ReportEnglish ==
  /\ pc = "report_en"
  /\ \E dirOk \in BOOLEAN, writeOk \in BOOLEAN :
       /\ stages' = IF dirOk THEN Append(stages, "generate_html_report_en") ELSE stages
       /\ IF dirOk /\ writeOk
            THEN /\ reports' = Append(reports, "en")
                 /\ pc' = "translate"
                 /\ UNCHANGED << exitCode, exitVia >>
            ELSE /\ Exit(1, "uncaught")
                 /\ UNCHANGED reports
  /\ UNCHANGED << collectorVars, generatorVars, idx, evaluatorVars, translated_topics,
                  running, called, unloads, unloadOk >>
  /\ UNCHANGED ghostVars
  /\ UNCHANGED harnessVars

\* translation leaving the related papers out of the new topic
translation_without_related_papers(item) ==
  EvaluatedTopic([item.topic EXCEPT !.lang = "ko", !.related_papers = << >>],
                 [item.evaluation EXCEPT !.reasoning.lang = "ko"])

\* translate_topics, lines 72-90: the entry built from a parsed translation;
\* scores and related_papers are copied from the original.
translation(item) ==
  EvaluatedTopic([item.topic EXCEPT !.lang = "ko"],
                 [item.evaluation EXCEPT !.reasoning.lang = "ko"])

\* main, lines 99-102: TopicTranslator(), then the call of translate_topics;
\* an exception of the constructor goes to the except clause of main.
TranslateBegin ==
  /\ pc = "translate"
  /\ \E constructed \in BOOLEAN :
       IF constructed
         THEN /\ stages' = Append(stages, "translate_topics")
              /\ running' = "translate_topics"
              /\ translated_topics' = << >>
              /\ idx' = 1
              /\ pc' = "tr_loop"
         ELSE /\ pc' = "cleanup"
              /\ UNCHANGED << stages, running, translated_topics, idx >>
  /\ UNCHANGED << collectorVars, generatorVars, evaluatorVars, reports, called,
                  unloads, unloadOk, exitCode, exitVia >>
  /\ UNCHANGED ghostVars
  /\ UNCHANGED harnessVars

\* translate_topics, lines 60-90: the call for one entry returns a translation
TranslateOk ==
  /\ pc = "tr_loop"
  /\ idx <= Len(evaluated_topics)
  /\ called' = called \cup {"translate"}
  /\ translated_topics' = Append(translated_topics, translation(evaluated_topics[idx]))
  /\ idx' = idx + 1
  /\ UNCHANGED << pc, collectorVars, generatorVars, evaluatorVars, reports, stages,
                  running, unloads, unloadOk, exitCode, exitVia >>
  /\ callCount' = [callCount EXCEPT !.translate = @ + 1]
  /\ translations' = Append(translations, TRUE)
  /\ UNCHANGED lookups
  /\ UNCHANGED harnessVars

\* TranslateFail leaving the failed entry out of the result
TranslateFailDropsEntry ==
  /\ pc = "tr_loop"
  /\ idx <= Len(evaluated_topics)
  /\ called' = called \cup {"translate"}
  /\ idx' = idx + 1
  /\ UNCHANGED << pc, collectorVars, generatorVars, evaluatorVars, outputVars, stages,
                  running, unloads, unloadOk, exitCode, exitVia >>
  /\ callCount' = [callCount EXCEPT !.translate = @ + 1]
  /\ translations' = Append(translations, FALSE)
  /\ UNCHANGED lookups
  /\ UNCHANGED harnessVars

\* translate_topics, lines 92-95: the call raises, the original entry is kept
TranslateFail ==
  /\ pc = "tr_loop"
  /\ idx <= Len(evaluated_topics)
  /\ called' = called \cup {"translate"}
  /\ translated_topics' = Append(translated_topics, evaluated_topics[idx])
  /\ idx' = idx + 1
  /\ UNCHANGED << pc, collectorVars, generatorVars, evaluatorVars, reports, stages,
                  running, unloads, unloadOk, exitCode, exitVia >>
  /\ callCount' = [callCount EXCEPT !.translate = @ + 1]
  /\ translations' = Append(translations, FALSE)
  /\ UNCHANGED lookups
  /\ UNCHANGED harnessVars

\* translate_topics, lines 97-98: return translated_topics
TranslateReturn ==
  /\ pc = "tr_loop"
  /\ idx > Len(evaluated_topics)
  /\ idx' = 0
  /\ running' = ""
  /\ pc' = "report_ko"
  /\ UNCHANGED << collectorVars, generatorVars, evaluatorVars, outputVars, stages,
                  called, unloads, unloadOk, exitCode, exitVia >>
  /\ UNCHANGED ghostVars
  /\ UNCHANGED harnessVars

\* ReportKorean outside the try: a failed write ends the process
ReportKoreanUncaught ==
  /\ pc = "report_ko"
  /\ stages' = Append(stages, "generate_html_report_ko")
  /\ \E writeOk \in BOOLEAN :
       IF writeOk
         THEN /\ reports' = Append(reports, "ko")
              /\ pc' = "cleanup"
              /\ UNCHANGED << exitCode, exitVia >>
         ELSE /\ Exit(1, "uncaught")
              /\ UNCHANGED reports
  /\ UNCHANGED << collectorVars, generatorVars, idx, evaluatorVars, translated_topics,
                  running, called, unloads, unloadOk >>
  /\ UNCHANGED ghostVars
  /\ UNCHANGED harnessVars

\* main, lines 104-109: the translated report; a failure to write it is caught
ReportKorean ==
  /\ pc = "report_ko"
  /\ stages' = Append(stages, "generate_html_report_ko")
  /\ \E writeOk \in BOOLEAN :
       reports' = IF writeOk THEN Append(reports, "ko") ELSE reports
  /\ pc' = "cleanup"
  /\ UNCHANGED << collectorVars, generatorVars, idx, evaluatorVars, translated_topics,
                  running, called, unloads, unloadOk, exitCode, exitVia >>
  /\ UNCHANGED ghostVars
  /\ UNCHANGED harnessVars

\* main, lines 118 and 121 (the finally clause)
UnloadGeneratorFinal == unload_model("cleanup", MODEL_GENERATOR, "cleanup_evaluator")
UnloadEvaluatorFinal ==
  unload_model("cleanup_evaluator", MODEL_EVALUATOR, "cleanup_translator")

\* main, lines 125-129: the translator model is unloaded only when it is a
\* third model; then the success message and the normal end.
Finish ==
  /\ pc = "cleanup_translator"
  /\ IF model_translator # MODEL_GENERATOR /\ model_translator # MODEL_EVALUATOR
       THEN \E ok \in BOOLEAN :
              /\ unloads' = Append(unloads, model_translator)
              /\ unloadOk' = ok
       ELSE UNCHANGED << unloads, unloadOk >>
  /\ Exit(0, "normal")
  /\ UNCHANGED << collectorVars, generatorVars, idx, evaluatorVars, outputVars,
                  stages, running, called >>
  /\ UNCHANGED ghostVars
  /\ UNCHANGED harnessVars

\* ------------------------------------- agents/collector.py, the documents
\* create_vector_db, lines 118-133: the document made of a paper; its
\* metadata hold the two lists as one string each, the names joined with ", "
document_of(paper) ==
  [ title |-> paper.title,
    url |-> paper.url,
    authors |-> join(<< ",", " " >>, paper.authors),
    institutions |-> join(<< ",", " " >>, paper.institutions) ]

\* main, line 45, and create_vector_db, lines 118-133, after fetch_papers
\* returned: one document per paper
IndexPapers ==
  /\ pc = "fetch_returned"
  /\ papers' = fetched
  /\ metadata_docs' = [n \in 1..Len(fetched) |-> document_of(fetched[n])]
  /\ pc' = "map_call"
  /\ UNCHANGED << vector_db, store, i, attempt, dbLog, skipped, generatorVars, idx,
                  evaluatorVars, outputVars, driverVars, ghostVars >>
  /\ UNCHANGED << response, fetched, inverted_index, abstract, line, query, stream,
                  printed, prompts, csv, html >>

\* ------------------------------------- agents/generator.py, related papers
\* generate_topics, lines 179-185: the entry of related_papers made of a
\* document the lookup returned; the fields are copied from its metadata
related_paper_of(doc) ==
  [ title |-> doc.title, authors |-> doc.authors, url |-> doc.url ]

\* generate_topics, lines 176-186, for one topic, a document of this run being
\* the nearest; evaluate_topics, line 77, then pairs the topic as it is with
\* its evaluation.
MapRelatedPapers ==
  /\ pc = "map_call"
  /\ \E d \in 1..Len(metadata_docs), evaluation \in MainEvalResponses :
       LET topic == [ResearchTopic(1) EXCEPT
                       !.related_papers = << related_paper_of(metadata_docs[d]) >>]
       IN  /\ topics' = << topic >>
           /\ evaluated_topics' = << EvaluatedTopic(topic, with_total(evaluation)) >>
  /\ pc' = "render_call"
  /\ UNCHANGED << collectorVars, context, raw_content, idx, responses, outputVars,
                  driverVars, ghostVars >>
  /\ UNCHANGED harnessVars

\* ------------------------------------------------ utils/report_generator.py
\* The text an f-string gives for an int: its decimal digits
Digits == << "0", "1", "2", "3", "4", "5", "6", "7", "8", "9" >>

RECURSIVE str_nat(_)
str_nat(n) ==
  IF n < 10 THEN << Digits[n + 1] >>
  ELSE Append(str_nat(n \div 10), Digits[(n % 10) + 1])

str_int(n) == IF n < 0 THEN << "-" >> \o str_nat(0 - n) ELSE str_nat(n)

\* line 49: Score: {eval_result.total_score}/15
score_text(total_score) ==
  << "S", "c", "o", "r", "e", ":", " " >> \o str_int(total_score) \o << "/", "1", "5" >>

\* line 74: ", ".join(paper["authors"][:3]) + (" et al." if
\* len(paper["authors"]) > 3 else ""); paper["authors"] is the string of the
\* document's metadata, so the slice is its first three characters, the join
\* runs over those characters, and the length is the number of characters.
authors_shown(authors) ==
  LET sliced == SubSeq(authors, 1, Min(3, Len(authors)))
  IN  join(<< ",", " " >>, [n \in 1..Len(sliced) |-> << sliced[n] >>])
        \o (IF Len(authors) > 3 THEN << " ", "e", "t", " ", "a", "l", "." >> ELSE << >>)

\* lines 70-77: the block of one related paper; the authors line is there
\* only for a non-empty authors value
paper_block(paper) ==
  [ title |-> paper.title,
    link |-> paper.url,
    authors_line |-> IF paper.authors # << >>
                       THEN Some(authors_shown(paper.authors)) ELSE None ]

\* lines 45-100: the card of the entry at index index_i of the list (from 0)
topic_card(index_i, item) ==
  [ rank |-> << "#" >> \o str_int(index_i + 1),
    topic |-> item.topic.id,
    score |-> score_text(item.evaluation.total_score),
    papers |-> [k \in 1..Len(item.topic.related_papers) |->
                  paper_block(item.topic.related_papers[k])] ]

\* generate_html_report leaving out the cards of topics without related papers
generate_html_report_skipping(list) ==
  LET cards == [n \in 1..Len(list) |-> topic_card(n - 1, list[n])]
  IN  SelectSeq(cards, LAMBDA card : card.papers # << >>)

\* lines 41-105: the cards of the document, one per entry, in order
generate_html_report(list) ==
  [n \in 1..Len(list) |-> topic_card(n - 1, list[n])]

\* generate_html_report(evaluated_topics, filename) called alone: the
\* document is written, or open() or write() raises to the caller
RenderReport ==
  /\ pc = "render_call"
  /\ \E writeOk \in BOOLEAN :
       IF writeOk
         THEN /\ html' = generate_html_report(evaluated_topics)
              /\ pc' = "rendered"
         ELSE /\ pc' = "render_raised"
              /\ UNCHANGED html
  /\ UNCHANGED pipelineVars
  /\ UNCHANGED << response, fetched, inverted_index, abstract, line, query, stream,
                  printed, prompts, csv, metadata_docs >>

\* ------------------------------------------------------------------ RAG.py
\* A line of text is the sequence of its characters.
MaxLines == 2

\* The lines typed at the prompt in the runs explored
Lines ==
  { << "q" >>, << " ", "Q", " " >>, << "e", "x", "i", "t" >>, << "Q", "u", "i", "t" >>,
    << >>, << " " >>, << "h", "i" >>, << " ", "h", "i" >>, << "q", "?" >> }

\* The chunk sequences chain.stream may yield for a question
Answers == { << >>, << "tok1" >>, << "tok1", "tok2" >>, << "tok2", "tok1" >> }

\* str.strip(): leading and trailing blanks removed
RECURSIVE lstrip(_)
lstrip(s) == IF s # << >> /\ Head(s) = " " THEN lstrip(Tail(s)) ELSE s

RECURSIVE rstrip(_)
rstrip(s) == IF s # << >> /\ s[Len(s)] = " " THEN rstrip(SubSeq(s, 1, Len(s) - 1)) ELSE s

strip(s) == rstrip(lstrip(s))

\* str.lower(), over the letters that occur in Lines
lower(s) ==
  [n \in 1..Len(s) |-> CASE s[n] = "Q" -> "q" [] s[n] = "E" -> "e" [] OTHER -> s[n]]

\* line 71: ['exit', 'quit', 'q']
exit_keywords ==
  { << "e", "x", "i", "t" >>, << "q", "u", "i", "t" >>, << "q" >> }

\* Number of calls of input() so far: each writes the prompt "User: "
LinesRead == Cardinality({ n \in 1..Len(printed) : printed[n] = "User: " })

\* ChatReadLine answering the empty line too
ChatReadLineAnswersEmpty ==
  /\ pc = "chat_input"
  /\ LinesRead < MaxLines
  /\ \E typed \in Lines :
       /\ line' = typed
       /\ query' = strip(typed)
       /\ IF lower(strip(typed)) \in exit_keywords
            THEN /\ printed' = printed \o << "User: ", "Goodbye!" >>
                 /\ pc' = "chat_done"
            ELSE /\ printed' = printed \o << "User: ", "Thinking...", "Bot: " >>
                 /\ pc' = "chat_retrieve"
  /\ UNCHANGED << response, fetched, inverted_index, abstract, stream, prompts >>
  /\ UNCHANGED pipelineVars
  /\ UNCHANGED << csv, reportVars >>

\* lines 70-80: input() returns a line; exit keyword, empty line, or question
ChatReadLine ==
  /\ pc = "chat_input"
  /\ LinesRead < MaxLines
  /\ \E typed \in Lines :
       /\ line' = typed
       /\ query' = strip(typed)
       /\ IF lower(strip(typed)) \in exit_keywords
            THEN /\ printed' = printed \o << "User: ", "Goodbye!" >>
                 /\ pc' = "chat_done"
            ELSE IF strip(typed) = << >>
                   THEN \* continue
                        /\ printed' = Append(printed, "User: ")
                        /\ pc' = "chat_input"
                   ELSE /\ printed' = printed \o << "User: ", "Thinking...", "Bot: " >>
                        /\ pc' = "chat_retrieve"
  /\ UNCHANGED << response, fetched, inverted_index, abstract, stream, prompts >>
  /\ UNCHANGED pipelineVars
  /\ UNCHANGED << csv, reportVars >>

\* line 70 and lines 91-92: input() raises EOFError at the end of the input;
\* it is an Exception, so the error is printed and the loop reads again.
ChatEndOfInput ==
  /\ pc = "chat_input"
  /\ LinesRead < MaxLines
  /\ printed' = printed \o << "User: ", "Error" >>
  /\ UNCHANGED << pc, response, fetched, inverted_index, abstract, line, query, stream,
                  prompts >>
  /\ UNCHANGED pipelineVars
  /\ UNCHANGED << csv, reportVars >>

\* line 83, first iteration of chain.stream(query): the retriever fetches the
\* context from the persisted store and the prompt is built from it and the
\* question, or the retrieval raises (lines 91-92).
ChatRetrieve ==
  /\ pc = "chat_retrieve"
  /\ \E retrieved \in BOOLEAN :
       IF retrieved
         THEN /\ prompts' = Append(prompts, [context |-> "store", question |-> query])
              /\ \E answer \in Answers : stream' = answer
              /\ pc' = "chat_stream"
              /\ UNCHANGED printed
         ELSE /\ printed' = Append(printed, "Error")
              /\ pc' = "chat_input"
              /\ UNCHANGED << prompts, stream >>
  /\ UNCHANGED << response, fetched, inverted_index, abstract, line, query >>
  /\ UNCHANGED pipelineVars
  /\ UNCHANGED << csv, reportVars >>

\* lines 83-85: the next chunk arrives and is printed
ChatChunk ==
  /\ pc = "chat_stream"
  /\ stream # << >>
  /\ printed' = Append(printed, Head(stream))
  /\ stream' = Tail(stream)
  /\ UNCHANGED << pc, response, fetched, inverted_index, abstract, line, query, prompts >>
  /\ UNCHANGED pipelineVars
  /\ UNCHANGED << csv, reportVars >>

\* lines 83 and 91-92: the model fails while streaming
ChatStreamFail ==
  /\ pc = "chat_stream"
  /\ printed' = Append(printed, "Error")
  /\ stream' = << >>
  /\ pc' = "chat_input"
  /\ UNCHANGED << response, fetched, inverted_index, abstract, line, query, prompts >>
  /\ UNCHANGED pipelineVars
  /\ UNCHANGED << csv, reportVars >>

\* line 86: the stream is exhausted, the newline is printed
ChatStreamEnd ==
  /\ pc = "chat_stream"
  /\ stream = << >>
  /\ printed' = Append(printed, "newline")
  /\ pc' = "chat_input"
  /\ UNCHANGED << response, fetched, inverted_index, abstract, line, query, stream,
                  prompts >>
  /\ UNCHANGED pipelineVars
  /\ UNCHANGED << csv, reportVars >>

\* lines 88-90: KeyboardInterrupt, at the prompt or while answering
ChatInterrupt ==
  /\ pc \in {"chat_input", "chat_retrieve", "chat_stream"}
  /\ printed' = Append(printed, "Goodbye!")
  /\ stream' = << >>
  /\ pc' = "chat_done"
  /\ UNCHANGED << response, fetched, inverted_index, abstract, line, query, prompts >>
  /\ UNCHANGED pipelineVars
  /\ UNCHANGED << csv, reportVars >>

\* ------------------------------------------------------------ specifications
InitCommon ==
  /\ papers = << >>
  /\ vector_db = "None"
  /\ store = {}
  /\ i = 0
  /\ attempt = 0
  /\ dbLog = << >>
  /\ skipped = {}
  /\ context = "none"
  /\ raw_content = ""
  /\ idx = 0
  /\ responses = << >>
  /\ evaluated_topics = << >>
  /\ translated_topics = << >>
  /\ reports = << >>
  /\ stages = << >>
  /\ running = ""
  /\ called = {}
  /\ unloads = << >>
  /\ unloadOk = TRUE
  /\ exitCode = -1
  /\ exitVia = ""
  /\ lookups = << >>
  /\ translations = << >>
  /\ callCount = [generate |-> 0, evaluate |-> 0, translate |-> 0]

\* The variables of the other entry points, while they are not in use
InitHarness ==
  /\ response = [outcome |-> "ok", results |-> << >>, csvDirOk |-> TRUE,
                 csvWriteOk |-> TRUE]
  /\ fetched = << >>
  /\ csv = << >>
  /\ metadata_docs = << >>
  /\ html = << >>
  /\ inverted_index = None
  /\ abstract = << >>
  /\ line = << >>
  /\ query = << >>
  /\ stream = << >>
  /\ printed = << >>
  /\ prompts = << >>

\* python main.py <keyword>
Init ==
  /\ InitCommon
  /\ InitHarness
  /\ pc = "fetch"
  /\ topics = << >>

Next ==
  \/ FetchPapers \/ CheckPapers
  \/ CvdBegin \/ CvdNextBatch \/ AddDocumentsOk \/ AddDocumentsFail \/ Sleep
  \/ CheckDb \/ UnloadEmbedding
  \/ GenRetrieve \/ GenInvoke \/ GenMapOk \/ GenMapFail \/ GenReturn
  \/ CheckTopics \/ UnloadGenerator
  \/ EvaluateBegin \/ EvaluateOk(MainEvalResponses) \/ EvaluateFail \/ EvaluateReturn
  \/ ReportEnglish
  \/ TranslateBegin \/ TranslateOk \/ TranslateFail \/ TranslateReturn \/ ReportKorean
  \/ UnloadGeneratorFinal \/ UnloadEvaluatorFinal \/ Finish

Spec == Init /\ [][Next]_vars

\* TopicEvaluator().evaluate_topics(topics) called on any list of topics
InitEval ==
  /\ InitCommon
  /\ InitHarness
  /\ pc = "evaluate"
  /\ topics \in { [j \in 1..n |-> ResearchTopic(j)] : n \in 0..MaxEvalTopics }

NextEval ==
  \/ EvaluateBegin \/ EvaluateOk(EvalResponses) \/ EvaluateFail \/ EvaluateReturn

SpecEval == InitEval /\ [][NextEval]_vars

\* python RAG.py, at the first prompt of the chat loop
InitChat ==
  /\ InitCommon
  /\ InitHarness
  /\ pc = "chat_input"
  /\ topics = << >>

NextChat ==
  \/ ChatReadLine
  \/ ChatEndOfInput
  \/ ChatRetrieve
  \/ ChatChunk
  \/ ChatStreamFail
  \/ ChatStreamEnd
  \/ ChatInterrupt

SpecChat == InitChat /\ [][NextChat]_vars

\* ---- inputs of the collector's functions
MaxResults == 3
MaxAuthorships == 5
MaxEntries == 2
MaxPositions == 2
MaxPos == 2

\* Sequences over S of length 0..n
SeqsUpTo(S, n) == UNION { [1..k -> S] : k \in 0..n }

\* Inverted indexes: a dictionary is the sequence of its items, with distinct
\* keys; a word is listed with its positions.
Words == { << "a" >>, << "b" >>, << >> }
IndexItems == [word : Words, positions : SeqsUpTo(0..MaxPos, MaxPositions)]
Indexes ==
  { items \in SeqsUpTo(IndexItems, MaxEntries) :
      \A m, n \in 1..Len(items) : m # n => items[m].word # items[n].word }
ExampleIndex ==
  << [word |-> << "a" >>, positions |-> << 0, 2 >>],
     [word |-> << "b" >>, positions |-> << 1 >>] >>

\* Authorships of an API result: the author's display name and the names of
\* the author's institutions, any of which may be missing or empty.
Authorships ==
  { [display_name |-> Some(<< "A", "1" >>), institutions |-> << Some(<< "I", "1" >>) >>],
    [display_name |-> Some(<< "A", "2" >>), institutions |-> << Some(<< "I", "1" >>), Some(<< "I", "2" >>) >>],
    [display_name |-> None,       institutions |-> << Some(<< "I", "3" >>) >>],
    [display_name |-> Some(<< "A", "3" >>), institutions |-> << Some(<< "I", "3" >>), Some(<< "I", "4" >>) >>],
    [display_name |-> Some(<< "A", "1" >>), institutions |-> << >>],
    [display_name |-> Some(<< >>), institutions |-> << None, Some(<< >>), Some(<< "I", "2" >>) >>] }

\* API results of the runs of fetch_papers: every title and index case, one
\* authorship; the result at position n has id n.
ResultBodies ==
  [ title : { None, Some(""), Some("T") },
    abstract_inverted_index :
      { None, Some(<< >>), Some(ExampleIndex),
        Some(<< [word |-> << >>, positions |-> << 0 >>] >>) },
    authorships : { << [display_name |-> Some(<< "A", "1" >>), institutions |-> << Some(<< "I", "1" >>) >>] >> } ]
WithIds(bodies) ==
  [n \in 1..Len(bodies) |->
     [ id |-> n, title |-> bodies[n].title,
       abstract_inverted_index |-> bodies[n].abstract_inverted_index,
       authorships |-> bodies[n].authorships ]]

\* PaperCollector().fetch_papers(keyword) alone, on any outcome of the request
InitFetch ==
  /\ InitCommon
  /\ pc = "fetch_call"
  /\ topics = << >>
  /\ response \in
       [ outcome : {"ok", "network", "http_status", "parsing"},
         results : { WithIds(bodies) : bodies \in SeqsUpTo(ResultBodies, MaxResults) },
         csvDirOk : BOOLEAN,
         csvWriteOk : BOOLEAN ]
  /\ fetched = << >>
  /\ csv = << >>
  /\ metadata_docs = << >>
  /\ html = << >>
  /\ inverted_index = None
  /\ abstract = << >>
  /\ line = << >>
  /\ query = << >>
  /\ stream = << >>
  /\ printed = << >>
  /\ prompts = << >>

NextFetch == FetchCall

SpecFetch == InitFetch /\ [][NextFetch]_vars

\* fetch_papers on one well-formed result with any list of authorships
InitAuthors ==
  /\ InitCommon
  /\ pc = "fetch_call"
  /\ topics = << >>
  /\ \E authorships \in SeqsUpTo(Authorships, MaxAuthorships) :
       response =
         [ outcome |-> "ok",
           results |-> << [ id |-> 1, title |-> Some("T"),
                            abstract_inverted_index |-> Some(ExampleIndex),
                            authorships |-> authorships ] >>,
           csvDirOk |-> TRUE,
           csvWriteOk |-> TRUE ]
  /\ fetched = << >>
  /\ csv = << >>
  /\ metadata_docs = << >>
  /\ html = << >>
  /\ inverted_index = None
  /\ abstract = << >>
  /\ line = << >>
  /\ query = << >>
  /\ stream = << >>
  /\ printed = << >>
  /\ prompts = << >>

SpecAuthors == InitAuthors /\ [][NextFetch]_vars

\* _reconstruct_abstract alone, on any inverted index or None
InitAbstract ==
  /\ InitCommon
  /\ pc = "abstract_call"
  /\ topics = << >>
  /\ response = [outcome |-> "ok", results |-> << >>, csvDirOk |-> TRUE,
                 csvWriteOk |-> TRUE]
  /\ fetched = << >>
  /\ csv = << >>
  /\ metadata_docs = << >>
  /\ html = << >>
  /\ inverted_index \in { None } \cup { Some(items) : items \in Indexes }
  /\ abstract = << >>
  /\ line = << >>
  /\ query = << >>
  /\ stream = << >>
  /\ printed = << >>
  /\ prompts = << >>

NextAbstract == ReconstructCall

SpecAbstract == InitAbstract /\ [][NextAbstract]_vars

\* ---- inputs of the report generator
MaxReportTopics == 2
MaxRelated == 2

\* Related papers as generate_topics leaves them: with and without a link,
\* with and without authors
RelatedPapers ==
  { [title |-> "P1", authors |-> << "A", "l", ",", " ", "B", "o" >>, url |-> "u1"],
    [title |-> "P2", authors |-> << >>, url |-> ""] }
ReportEntries ==
  { EvaluatedTopic([ResearchTopic(id) EXCEPT !.related_papers = related],
                   EvaluationResult(4, 4, 4, total, "model reasoning")) :
      id \in 1..2, related \in SeqsUpTo(RelatedPapers, MaxRelated),
      total \in {12, 3, 0} }

\* generate_html_report alone, on any list of evaluated topics
InitReport ==
  /\ papers = << >>
  /\ vector_db = "None"
  /\ store = {}
  /\ i = 0
  /\ attempt = 0
  /\ dbLog = << >>
  /\ skipped = {}
  /\ context = "none"
  /\ raw_content = ""
  /\ idx = 0
  /\ responses = << >>
  /\ translated_topics = << >>
  /\ reports = << >>
  /\ stages = << >>
  /\ running = ""
  /\ called = {}
  /\ unloads = << >>
  /\ unloadOk = TRUE
  /\ exitCode = -1
  /\ exitVia = ""
  /\ lookups = << >>
  /\ translations = << >>
  /\ callCount = [generate |-> 0, evaluate |-> 0, translate |-> 0]
  /\ InitHarness
  /\ pc = "render_call"
  /\ topics = << >>
  /\ evaluated_topics \in SeqsUpTo(ReportEntries, MaxReportTopics)

NextReport == RenderReport

SpecReport == InitReport /\ [][NextReport]_vars

\* From the API's answer to the report: fetch_papers, the documents of the
\* vector store, the related paper of a topic, the card of the report
NextRelated == FetchCall \/ IndexPapers \/ MapRelatedPapers \/ RenderReport

SpecRelated == InitAuthors /\ [][NextRelated]_vars

\* ==================================================================== claims
Range(seq) == { seq[n] : n \in 1..Len(seq) }

\* C1: when fetch_papers returns an empty list the driver exits with a nonzero
\* status straight from the first check: fetch_papers is the only stage
\* invoked, and no embedding, generation, evaluation or translation call and
\* no unload request is ever made on that run.
NoPapersExitsBeforeAnyModelCall ==
  (pc # "fetch" /\ papers = << >>) =>
     /\ pc \in {"check_papers", "exited"}
     /\ stages = << "fetch_papers" >>
     /\ called = {}
     /\ unloads = << >>
     /\ pc = "exited" => (exitCode # 0 /\ exitVia = "no_papers")

NoPapersExitReached ==
  pc = "exited" /\ papers = << >> /\ exitVia = "no_papers" /\ exitCode = 1

\* C2: with papers collected and indexed, a generation call whose text is not
\* valid JSON, or fails the topic-list schema, makes generate_topics return
\* an empty list to main (no exception), and main exits nonzero without
\* invoking evaluate_topics.
MalformedGenerationAbortsBeforeEvaluation ==
  raw_content \in {"not_json", "bad_schema"} =>
     /\ papers # << >> /\ vector_db = "Chroma"
     /\ topics = << >>
     /\ pc \in {"check_topics", "exited"}
     /\ "evaluate_topics" \notin Range(stages)
     /\ "evaluate" \notin called
     /\ evaluated_topics = << >>
     /\ pc = "exited" => (exitCode # 0 /\ exitVia = "no_topics")

MalformedGenerationExitReached ==
  /\ raw_content = "not_json"
  /\ store # {}
  /\ pc = "exited" /\ exitCode = 1

\* C3: the stages invoked so far always form a prefix of StageOrder (so none
\* is invoked twice or out of order), the stage that is running is the last
\* one invoked, and a stage is invoked only when no stage is running, one at
\* a time.
StagesRunInProgramOrder ==
  /\ [](/\ IsPrefix(stages, StageOrder)
        /\ running # "" => (stages # << >> /\ running = stages[Len(stages)]))
  /\ [][stages' # stages =>
          /\ running = ""
          /\ Len(stages') = Len(stages) + 1
          /\ SubSeq(stages', 1, Len(stages)) = stages]_vars

AllStagesRun ==
  pc = "exited" /\ stages = StageOrder /\ reports = << "en", "ko" >>

\* C4 (as stated): a run ends with a nonzero status only through the "no
\* papers" and "no topics" checks.
OnlyEarlyAbortsEndAbnormally ==
  (pc = "exited" /\ exitCode # 0) => exitVia \in {"no_papers", "no_topics"}

\* The events the current create_vector_db call logged for the batch at b
BatchEvents(b) ==
  LET evs == SelectSeq(dbLog, LAMBDA e : e.batch = b)
  IN  [n \in 1..Len(evs) |-> evs[n].ev]

LoggedBatches == { e.batch : e \in Range(dbLog) }

CountOf(kinds, kind) == Cardinality({ n \in 1..Len(kinds) : kinds[n] = kind })

\* C5: a batch that failed on attempts 1 and 2 is not given up (attempt 3 is
\* still made) and, succeeding on attempt 3, is inserted and not marked
\* skipped; a batch that failed 3 times is marked skipped and not inserted,
\* the loop goes on to the next batch, and create_vector_db returns the store
\* (no exit, no exception), skipped batches or not.
RetryThenInsertOrSkip ==
  /\ \A b \in LoggedBatches :
       LET evs == BatchEvents(b) IN
         /\ evs \in { << "failed", "slept", "failed" >>,
                      << "failed", "slept", "failed", "slept" >> }
              => (b \notin skipped /\ i = b /\ pc \in {"cvd_sleep", "cvd_attempt"})
         /\ evs = << "failed", "slept", "failed", "slept", "added" >>
              => (b \notin skipped /\ Batch(papers, b) \subseteq store)
         /\ CountOf(evs, "failed") = 3
              => /\ b \in skipped
                 /\ Batch(papers, b) \cap store = {}
                 /\ i >= b + VECTOR_DB_BATCH_SIZE
                 /\ i > b + VECTOR_DB_BATCH_SIZE
                      => (b + VECTOR_DB_BATCH_SIZE) \in LoggedBatches
                 /\ pc \in {"cvd_loop", "cvd_attempt", "cvd_sleep"}
                 /\ exitCode = -1
         /\ b \in skipped => CountOf(evs, "failed") = 3
  /\ skipped # {} =>
       /\ \A b \in skipped : Batch(papers, b) \cap store = {}
       /\ exitVia \notin {"no_vector_db"}
       /\ pc \notin {"cvd_begin", "cvd_loop", "cvd_attempt", "cvd_sleep"}
            => vector_db = "Chroma"

ThirdAttemptInsertedAfterSkippedBatch ==
  /\ pc = "cvd_loop"
  /\ BatchEvents(0) = << "failed", "slept", "failed", "slept", "failed", "skipped" >>
  /\ BatchEvents(1) = << "failed", "slept", "failed", "slept", "added" >>
  /\ store = {papers[2]} /\ skipped = {0}

\* C6: in a create_vector_db call every batch gets at least one and at most 3
\* add_documents attempts, nothing follows a successful attempt of a batch
\* (so a batch is inserted at most once), and each 5-second sleep comes right
\* after a failed attempt that is not the third and right before the next
\* attempt on the same batch.
IsAttempt(e) == e.ev \in {"added", "failed"}

BoundedAttemptsAndSleeps ==
  /\ \A b \in LoggedBatches :
       LET evs == BatchEvents(b) IN
         /\ CountOf(evs, "added") + CountOf(evs, "failed") \in 1..3
         /\ CountOf(evs, "added") <= 1
         /\ \A n \in 1..Len(evs) : evs[n] = "added" => n = Len(evs)
  /\ running = "create_vector_db" /\ pc # "cvd_begin" =>
       \A n \in 0..(Len(papers) - 1) :
          (n % VECTOR_DB_BATCH_SIZE = 0 /\ n < i) => n \in LoggedBatches
  /\ \A n \in 1..Len(dbLog) :
       dbLog[n].ev = "slept" =>
         /\ n > 1
         /\ dbLog[n - 1].ev = "failed"
         /\ dbLog[n - 1].batch = dbLog[n].batch
         /\ dbLog[n - 1].attempt = dbLog[n].attempt
         /\ dbLog[n].attempt < 2
         /\ IF n < Len(dbLog)
              THEN /\ IsAttempt(dbLog[n + 1])
                   /\ dbLog[n + 1].batch = dbLog[n].batch
                   /\ dbLog[n + 1].attempt = dbLog[n].attempt + 1
              ELSE pc = "cvd_attempt" /\ i = dbLog[n].batch
                     /\ attempt = dbLog[n].attempt + 1
  /\ \A n \in 1..Len(dbLog) :
       (dbLog[n].ev = "failed" /\ dbLog[n].attempt = 2) =>
          (n < Len(dbLog) /\ dbLog[n + 1].ev = "skipped")

SleptTwiceThenInserted ==
  /\ Len(dbLog) >= 5
  /\ BatchEvents(0) = << "added" >>
  /\ BatchEvents(1) = << "failed", "slept", "failed", "slept", "added" >>

\* ------------------------------------------------ evaluate_topics (SpecEval)
\* evaluate_topics has returned to its caller
EvaluateReturned == pc = "report_en"

\* The entries of evaluated_topics that carry input topic j
EntriesOf(j) == { n \in 1..Len(evaluated_topics) : evaluated_topics[n].topic = topics[j] }

\* The evaluation returned for input topic j (there is exactly one entry)
EvaluationOf(j) == evaluated_topics[CHOOSE n \in EntriesOf(j) : TRUE].evaluation

SameScoresAndReasoning(a, b) ==
  /\ a.originality_score = b.originality_score
  /\ a.feasibility_score = b.feasibility_score
  /\ a.impact_score = b.impact_score
  /\ a.reasoning = b.reasoning

\* Every input topic has exactly one entry; a topic whose call failed carries
\* `fallback`, the others the scores and reasoning the model gave them.
OneEntryPerTopicWith(fallback) ==
  EvaluateReturned =>
    /\ Len(evaluated_topics) = Len(topics)
    /\ \A j \in 1..Len(topics) :
         /\ Cardinality(EntriesOf(j)) = 1
         /\ IF responses[j].ok
              THEN SameScoresAndReasoning(EvaluationOf(j), responses[j].evaluation)
              ELSE EvaluationOf(j) = fallback

\* C7 (as stated): the fallback record is (1, 1, 1, total 3, reasoning
\* "Evaluation failed").
FallbackAsStated == OneEntryPerTopicWith(EvaluationResult(1, 1, 1, 3, "Evaluation failed"))

\* C7 (amended): evaluate_topics returns exactly one entry per input topic,
\* none dropped or duplicated; a topic whose call or parsing failed carries
\* (1, 1, 1, total 3, reasoning "Evaluation failed."), the reasoning text
\* ending in a full stop, and every other topic its own scores and reasoning.
FallbackNeverDropsTopic == OneEntryPerTopicWith(EvaluationResult(1, 1, 1, 3, "Evaluation failed."))

FailedAndEvaluatedTopicsReturned ==
  /\ EvaluateReturned
  /\ Len(topics) = 3
  /\ ~responses[1].ok /\ responses[2].ok /\ ~responses[3].ok
  /\ responses[2].evaluation.total_score = 7

Sum(evaluation) ==
  evaluation.originality_score + evaluation.feasibility_score + evaluation.impact_score

SortedDescendingAndStable ==
  EvaluateReturned =>
    /\ Len(evaluated_topics) = Len(topics)
    /\ \A j \in 1..Len(topics) :
         /\ Cardinality(EntriesOf(j)) = 1
         /\ EvaluationOf(j) = IF responses[j].ok THEN with_total(responses[j].evaluation)
                                                 ELSE default_eval
    /\ \A m, n \in 1..Len(evaluated_topics) :
         m < n =>
           /\ evaluated_topics[m].evaluation.total_score
                >= evaluated_topics[n].evaluation.total_score
           /\ evaluated_topics[m].evaluation.total_score
                = evaluated_topics[n].evaluation.total_score
                => evaluated_topics[m].topic.id < evaluated_topics[n].topic.id

TiesKeptBehindHigherTotal ==
  /\ EvaluateReturned
  /\ Len(evaluated_topics) = 3
  /\ ~responses[1].ok
  /\ responses[2].ok /\ responses[2].evaluation.total_score = 3
  /\ evaluated_topics[1].topic.id = 3 /\ evaluated_topics[1].evaluation.total_score = 9
  /\ evaluated_topics[2].topic.id = 1
  /\ evaluated_topics[3].topic.id = 2

\* C10 (as stated): every returned evaluation has its three scores in 1..5.
ScoresWithinOneToFive ==
  \A n \in 1..Len(evaluated_topics) :
    /\ evaluated_topics[n].evaluation.originality_score \in 1..5
    /\ evaluated_topics[n].evaluation.feasibility_score \in 1..5
    /\ evaluated_topics[n].evaluation.impact_score \in 1..5

\* --------------------------------------------------------------------- C11
\* C11: every entry translate_topics has produced carries the three criterion
\* scores, the total score and the related-papers list of the input entry at
\* the same position; a translated entry differs from it in its texts only.
SameScoresAndLinks(out, item) ==
  /\ out.evaluation.originality_score = item.evaluation.originality_score
  /\ out.evaluation.feasibility_score = item.evaluation.feasibility_score
  /\ out.evaluation.impact_score = item.evaluation.impact_score
  /\ out.evaluation.total_score = item.evaluation.total_score
  /\ out.topic.related_papers = item.topic.related_papers
  /\ out.topic.id = item.topic.id

TranslationKeepsScoresAndLinks ==
  /\ Len(translated_topics) <= Len(evaluated_topics)
  /\ \A n \in 1..Len(translated_topics) :
       SameScoresAndLinks(translated_topics[n], evaluated_topics[n])

\* a translated entry with a related paper and a total the evaluator reported
TranslatedEntryWithRelatedPaper ==
  /\ pc = "report_ko"
  /\ \E n \in 1..Len(translated_topics) :
       /\ translations[n]
       /\ translated_topics[n].topic.lang = "ko"
       /\ translated_topics[n].evaluation.reasoning.lang = "ko"
       /\ translated_topics[n].topic.related_papers # << >>
       /\ translated_topics[n].evaluation.total_score = 3

\* --------------------------------------------------------------------- C12
\* C12: translate_topics returns a list as long as its input and in its order;
\* position n holds the translation of input entry n, or input entry n itself
\* when the call for it failed; a failed entry changes no other entry and
\* control always comes back to the caller, which goes on to the second report.
TranslateReturned ==
  /\ "translate_topics" \in Range(stages)
  /\ pc \in {"report_ko", "cleanup", "cleanup_evaluator", "cleanup_translator", "exited"}

TranslationOrOriginalPerEntry ==
  /\ Len(translations) = Len(translated_topics)
  /\ \A n \in 1..Len(translated_topics) :
       /\ translations[n] => /\ translated_topics[n] = translation(evaluated_topics[n])
                             /\ translated_topics[n] # evaluated_topics[n]
       /\ ~translations[n] => translated_topics[n] = evaluated_topics[n]
  /\ TranslateReturned => Len(translated_topics) = Len(evaluated_topics)
  /\ ("translate_topics" \in Range(stages) /\ pc # "tr_loop")
       => /\ TranslateReturned
          /\ (pc # "report_ko") => "generate_html_report_ko" \in Range(stages)

\* the first entry failed and is returned as it was, the second is translated
FailedEntryKeptNextTranslated ==
  /\ TranslateReturned
  /\ Len(translated_topics) = 2
  /\ ~translations[1]
  /\ translated_topics[1] = evaluated_topics[1]
  /\ translations[2]
  /\ translated_topics[2].topic.lang = "ko"

\* --------------------------------------------------------------------- C13
\* C13: once the English report is written, no failure of the translation step
\* (constructing the translator, translating, writing the translated report)
\* ends the process: control stays in the step or moves on to the cleanup, the
\* cleanup issues its unload requests, and only then the process ends, with
\* exit status zero.
TranslationStep == {"translate", "tr_loop", "report_ko"}
FinalCleanup == {"cleanup", "cleanup_evaluator", "cleanup_translator"}

TranslationStepFailureNotFatal ==
  [][ /\ (pc \in TranslationStep)
           => /\ Len(reports) >= 1 /\ reports[1] = "en"
              /\ pc' \in TranslationStep \cup FinalCleanup
              /\ exitCode' = -1
      /\ (pc \in FinalCleanup)
           => /\ pc' \in FinalCleanup \cup {"exited"}
              /\ (pc' = "exited")
                   => /\ pc = "cleanup_translator"
                      /\ exitCode' = 0
                      /\ Len(unloads') >= 2
                      /\ SubSeq(unloads', Len(unloads') - 1, Len(unloads'))
                           = << MODEL_GENERATOR, MODEL_EVALUATOR >>
    ]_vars

\* the translated report could not be written; the run still ended normally
TranslatedReportFailedRunEndedNormally ==
  /\ pc = "exited"
  /\ exitCode = 0
  /\ reports = << "en" >>
  /\ "generate_html_report_ko" \in Range(stages)

\* --------------------------------------------------------------------- C15
\* C15: after a successful parse, a failed nearest-neighbour lookup leaves its
\* topic with an empty related-papers list and the batch goes on: every parsed
\* topic is returned, in parsed order, and a topic whose lookup succeeded has
\* the document the lookup gave, one at most.
GenerateReturnedParsed ==
  /\ raw_content = "topic_list"
  /\ pc \notin {"gen_invoke", "gen_map"}

LookupFailureKeepsBatch ==
  (raw_content = "topic_list") =>
    /\ Len(lookups) <= Len(topics)
    /\ \A n \in 1..Len(topics) : topics[n].id = n
    /\ \A n \in 1..Len(lookups) :
         /\ ~lookups[n] => topics[n].related_papers = << >>
         /\ lookups[n] => /\ topics[n].related_papers \in similarity_search(store)
                          /\ Len(topics[n].related_papers) <= 1
    /\ GenerateReturnedParsed => Len(lookups) = Len(topics)

\* the first topic kept its related paper although the second lookup failed
FailedLookupAfterSuccessfulOne ==
  /\ GenerateReturnedParsed
  /\ Len(topics) = 2
  /\ lookups = << TRUE, FALSE >>
  /\ Len(topics[1].related_papers) = 1
  /\ topics[2].related_papers = << >>

\* --------------------------------------------------------------------- C16
\* C16: outside the vector-store insertion no call is repeated: an invocation
\* of generate_topics makes exactly one generation call, evaluate_topics one
\* call per input topic and translate_topics one call per input entry, the
\* failed calls included.
OneModelCallPerItem ==
  /\ callCount.generate = IF "generate_topics" \in Range(stages) /\ pc # "gen_invoke"
                            THEN 1 ELSE 0
  /\ callCount.evaluate = Len(responses)
  /\ (pc = "eval_loop") => callCount.evaluate = idx - 1
  /\ EvaluateReturned => callCount.evaluate = Len(topics)
  /\ callCount.translate = Len(translations)
  /\ (pc = "tr_loop") => callCount.translate = idx - 1
  /\ TranslateReturned => callCount.translate = Len(evaluated_topics)

\* a whole run with a failed evaluation call and a failed translation call
RunWithFailedCallsCountedOnce ==
  /\ pc = "exited"
  /\ exitCode = 0
  /\ callCount = [generate |-> 1, evaluate |-> 2, translate |-> 2]
  /\ \E n \in 1..Len(responses) : ~responses[n].ok
  /\ \E n \in 1..Len(translations) : ~translations[n]

\* --------------------------------------------------------------------- C17
\* C17: a step that issues an unload request goes on to the same position,
\* with the same stages run and no exit status set, whether the request
\* succeeded or failed: the outcome of an unload never decides what runs next.
AfterUnload ==
  [p \in {"unload_embedding", "unload_generator", "cleanup", "cleanup_evaluator"} |->
     CASE p = "unload_embedding" -> "generate"
       [] p = "unload_generator" -> "evaluate"
       [] p = "cleanup" -> "cleanup_evaluator"
       [] p = "cleanup_evaluator" -> "cleanup_translator"]

UnloadFailureKeepsControlFlow ==
  [][ (unloads' # unloads) =>
        /\ pc \in DOMAIN AfterUnload
        /\ pc' = AfterUnload[pc]
        /\ stages' = stages
        /\ << exitCode', exitVia' >> = << exitCode, exitVia >>
    ]_vars

\* the last unload request failed and the run completed all the same
RunCompletedAfterFailedUnload ==
  /\ pc = "exited"
  /\ exitCode = 0
  /\ ~unloadOk
  /\ Len(stages) = 7
  /\ Len(unloads) = 4

\* --------------------------------------------------------------------- C18
\* A step of the chat loop in which input() returned a line
LineRead ==
  /\ pc = "chat_input"
  /\ Len(printed') > Len(printed)
  /\ printed'[Len(printed) + 1] = "User: "
  /\ printed'[Len(printed')] # "Error"

\* C18 as stated: every line read either is an exit keyword and ends the loop,
\* or is answered.
EveryLineExitsOrIsAnswered ==
  [][ LineRead => IF lower(strip(line')) \in exit_keywords
                    THEN pc' = "chat_done"
                    ELSE pc' = "chat_retrieve"
    ]_vars

\* C18, amended: a line read is stripped; an exit keyword in any letter case
\* ends the loop, an empty line is skipped without a prompt or a model call,
\* any other line is answered from one prompt built from the persisted store
\* and the question; the chunks are printed in arrival order, and the next
\* line is read only after the last chunk or after a reported failure; an
\* interruption ends the loop.
ChatLoopPolicy ==
  [][ /\ LineRead =>
           /\ query' = strip(line')
           /\ prompts' = prompts
           /\ IF lower(query') \in exit_keywords
                THEN pc' = "chat_done"
                ELSE IF query' = << >>
                       THEN /\ pc' = "chat_input"
                            /\ printed' = Append(printed, "User: ")
                       ELSE pc' = "chat_retrieve"
      /\ (prompts' # prompts) =>
           /\ pc = "chat_retrieve"
           /\ pc' = "chat_stream"
           /\ prompts' = Append(prompts, [context |-> "store", question |-> query])
      /\ (pc = "chat_stream" /\ pc' = "chat_stream") =>
           /\ stream # << >>
           /\ printed' = Append(printed, Head(stream))
           /\ stream' = Tail(stream)
      /\ (pc # "chat_input" /\ pc' = "chat_input") =>
           \/ stream = << >> /\ printed' = Append(printed, "newline")
           \/ printed' = Append(printed, "Error")
      /\ (printed' # printed /\ printed'[Len(printed')] = "Goodbye!") => pc' = "chat_done"
    ]_vars

\* an empty line was skipped, then a question was answered chunk by chunk
EmptyLineSkippedQuestionAnswered ==
  /\ pc = "chat_input"
  /\ printed = << "User: ", "User: ", "Thinking...", "Bot: ", "tok2", "tok1", "newline" >>
  /\ line = << " ", "h", "i" >>
  /\ prompts = << [context |-> "store", question |-> << "h", "i" >>] >>

\* --------------------------------------------------------------------- C14
\* A result has a title, and an abstract that reconstructs to a non-empty
\* text: some word has a position, and the words are not one empty word.
HasTitle(result) == result.title \notin { None, Some("") }
HasAbstract(result) ==
  LET index == result.abstract_inverted_index
      items == IF index = None THEN << >> ELSE index[1]
      occurrences == { << m, k >> \in (1..Len(items)) \X (1..MaxPositions + 1) :
                         k <= Len(items[m].positions) }
  IN  /\ occurrences # {}
      /\ \/ Cardinality(occurrences) > 1
         \/ \E o \in occurrences : items[o[1]].word # << >>
SurvivingResult(j) ==
  HasTitle(response.results[j]) /\ HasAbstract(response.results[j])

\* C14: fetch_papers always returns; it returns [] when the request, its
\* status or the parsing of the response failed; every paper returned has a
\* non-empty title and a non-empty abstract, and a non-empty returned list is
\* the results that have both, in the order of the API.
FetchReturnsOnlyCompletePapers ==
  /\ pc \in {"fetch_call", "fetch_returned"}
  /\ exitCode = -1
  /\ (pc = "fetch_returned") =>
       /\ (response.outcome # "ok") => fetched = << >>
       /\ \A n \in 1..Len(fetched) :
            /\ fetched[n].title # ""
            /\ fetched[n].abstract # << >>
       /\ (fetched # << >>) =>
            [n \in 1..Len(fetched) |-> fetched[n].url]
              = SelectSeq(Ids(Len(response.results)), SurvivingResult)

\* of three results the second, whose title is empty, was dropped
MiddleResultDropped ==
  /\ pc = "fetch_returned"
  /\ Len(response.results) = 3
  /\ response.results[2].title = Some("")
  /\ response.results[2].abstract_inverted_index = Some(ExampleIndex)
  /\ Len(fetched) = 2
  /\ fetched[1].url = 1
  /\ fetched[2].url = 3

\* --------------------------------------------------------------------- C19
\* The words of an index by ascending position, and by word where two words
\* claim one position: for each position in turn, each word as often as the
\* index lists that position for it.
WordsInOrder == << << >>, << "a" >>, << "b" >> >>
CountAt(items, word, p) ==
  Cardinality({ << m, k >> \in (1..Len(items)) \X (1..MaxPositions + 1) :
                  /\ items[m].word = word
                  /\ k <= Len(items[m].positions)
                  /\ items[m].positions[k] = p })
RECURSIVE WordsUpToSlot(_, _)
WordsUpToSlot(items, slot) ==
  IF slot = 0 THEN << >>
  ELSE LET p == (slot - 1) \div Len(WordsInOrder)
           word == WordsInOrder[((slot - 1) % Len(WordsInOrder)) + 1]
       IN  WordsUpToSlot(items, slot - 1)
             \o [n \in 1..CountAt(items, word, p) |-> word]
WordsByPosition(items) == WordsUpToSlot(items, (MaxPos + 2) * Len(WordsInOrder))

RECURSIVE TotalLength(_)
TotalLength(words) ==
  IF words = << >> THEN 0 ELSE Len(Head(words)) + TotalLength(Tail(words))

\* C19: _reconstruct_abstract returns the words of the index by ascending
\* position, one word per listed position, with one space between two words
\* ({"a":[0,2], "b":[1]} gives "a b a"); None or an empty index gives "".
AbstractIsWordsByPosition ==
  (pc = "abstract_returned") =>
    IF inverted_index \in { None, Some(<< >>) }
      THEN abstract = << >>
      ELSE LET words == WordsByPosition(inverted_index[1])
           IN  /\ abstract = join_spaces(words)
               /\ Len(abstract) = TotalLength(words)
                                    + (IF words = << >> THEN 0 ELSE Len(words) - 1)
               /\ (inverted_index = Some(ExampleIndex))
                    => abstract = << "a", " ", "b", " ", "a" >>

\* the example of the specification
ExampleAbstractReconstructed ==
  /\ pc = "abstract_returned"
  /\ inverted_index = Some(ExampleIndex)
  /\ abstract = << "a", " ", "b", " ", "a" >>

\* --------------------------------------------------------------------- C20
\* The authorships the collector looks at, and where a name first occurs
\* among their institutions.
Named(authorship) == authorship.display_name \notin { None, Some(<< >>) }
FirstAuthorships ==
  LET authorships == response.results[1].authorships
  IN  SubSeq(authorships, 1, Min(AUTHORS_LIMIT, Len(authorships)))
OccurrencesOf(name) ==
  { a * 10 + k : << a, k >> \in
      { o \in (1..Len(FirstAuthorships)) \X (1..3) :
          /\ o[2] <= Len(FirstAuthorships[o[1]].institutions)
          /\ FirstAuthorships[o[1]].institutions[o[2]] = Some(name) } }
FirstOccurrence(name) ==
  CHOOSE o \in OccurrencesOf(name) : \A other \in OccurrencesOf(name) : o <= other
InstitutionNames == { << "I", "1" >>, << "I", "2" >>, << "I", "3" >>, << "I", "4" >> }

\* C20: the authors of a paper are the names of the first AUTHORS_LIMIT
\* authorships, in their order (an authorship without a name gives none); its
\* institutions are names of those authorships' institutions, without
\* duplicates, at most INSTITUTIONS_LIMIT, in the order of their first
\* occurrence, none passed over for a later one.
AuthorsAndInstitutionsCapped ==
  (pc = "fetch_returned") =>
    /\ Len(fetched) = 1
    /\ LET authors == fetched[1].authors
           institutions == fetched[1].institutions
           named == SelectSeq(FirstAuthorships, Named)
       IN  /\ authors = [n \in 1..Len(named) |-> named[n].display_name[1]]
           /\ Len(authors) <= AUTHORS_LIMIT
           /\ (Len(response.results[1].authorships) = 5
                 /\ \A n \in 1..5 : Named(response.results[1].authorships[n]))
                => authors = [n \in 1..3 |->
                                response.results[1].authorships[n].display_name[1]]
           /\ Len(institutions) <= INSTITUTIONS_LIMIT
           /\ \A m, n \in 1..Len(institutions) :
                /\ institutions[n] \in InstitutionNames
                /\ OccurrencesOf(institutions[n]) # {}
                /\ (m < n) => /\ institutions[m] # institutions[n]
                              /\ FirstOccurrence(institutions[m])
                                   < FirstOccurrence(institutions[n])
           /\ \A name \in InstitutionNames :
                (OccurrencesOf(name) # {} /\ name \notin Range(institutions))
                  => /\ Len(institutions) = INSTITUTIONS_LIMIT
                     /\ FirstOccurrence(institutions[INSTITUTIONS_LIMIT])
                          < FirstOccurrence(name)

\* five named authors with four institutions among the first three
FirstThreeOfFiveAuthorsKept ==
  /\ pc = "fetch_returned"
  /\ Len(response.results[1].authorships) = 5
  /\ \A n \in 1..5 : Named(response.results[1].authorships[n])
  /\ fetched[1].authors = << << "A", "1" >>, << "A", "2" >>, << "A", "3" >> >>
  /\ fetched[1].institutions = << << "I", "1" >>, << "I", "2" >>, << "I", "3" >> >>

\* --------------------------------------------------------------------- C23
\* C23: a run that reached the evaluation stage has, when the process ends,
\* issued an unload request for the generator model and one for the evaluator
\* model, whatever became of the reports and the translation.
EvaluatedRunUnloadsBothModels ==
  (pc = "exited" /\ "evaluate_topics" \in Range(stages))
    => /\ MODEL_GENERATOR \in Range(unloads)
       /\ MODEL_EVALUATOR \in Range(unloads)

\* --------------------------------------------------------------------- C24
\* The start indices of the batches of this run's papers
BatchStarts == { b \in 0..(Len(papers) - 1) : b % VECTOR_DB_BATCH_SIZE = 0 }

\* C24: called with the papers of a non-empty collection, create_vector_db
\* returns the store, never None, also when every batch was skipped after its
\* attempts; main's exit for a missing store is never taken, and generation
\* runs against the store whatever it holds.
StoreReturnedEvenIfAllBatchesSkipped ==
  /\ (pc \in {"cvd_begin", "cvd_loop", "cvd_attempt", "cvd_sleep", "check_db"})
       => papers # << >>
  /\ (pc = "check_db") => vector_db = "Chroma"
  /\ exitVia # "no_vector_db"
  /\ (pc = "unload_embedding" /\ skipped = BatchStarts)
       => /\ store = {}
          /\ vector_db = "Chroma"
          /\ exitCode = -1
  /\ ("generate_topics" \in Range(stages)) => vector_db = "Chroma"

\* every batch of two papers was skipped and generation has started
GenerationOnStoreWithoutPapers ==
  /\ pc = "gen_invoke"
  /\ Len(papers) = 2
  /\ skipped = BatchStarts
  /\ store = {}
  /\ vector_db = "Chroma"

\* --------------------------------------------------------------------- C25
\* C25: when the request and the parsing of its response succeeded,
\* fetch_papers returns every surviving paper, in order, whether or not the
\* CSV directory could be created and the file written.
CsvFailureKeepsReturnedList ==
  (pc = "fetch_returned" /\ response.outcome = "ok") =>
    [n \in 1..Len(fetched) |-> fetched[n].url]
      = SelectSeq(Ids(Len(response.results)), SurvivingResult)

\* --------------------------------------------------------------------- C21
\* str.split(sep) of Python, for a non-empty separator: the pieces between
\* the occurrences of sep, found from the left; the empty string gives one
\* empty piece.
RECURSIVE split_from(_, _, _)
split_from(s, sep, piece) ==
  IF s = << >> THEN << piece >>
  ELSE IF Len(s) >= Len(sep) /\ SubSeq(s, 1, Len(sep)) = sep
         THEN << piece >> \o split_from(SubSeq(s, Len(sep) + 1, Len(s)), sep, << >>)
         ELSE split_from(Tail(s), sep, Append(piece, Head(s)))
split(s, sep) == split_from(s, sep, << >>)

\* C21: in every row of the CSV file the authors cell and the institutions
\* cell are the names of the paper joined with "; ", and splitting a cell on
\* "; " gives back the paper's list.
CsvCellsSplitBackToLists ==
  (pc = "fetch_returned") =>
    /\ Len(csv) = Len(fetched)
    /\ \A n \in 1..Len(csv) :
         /\ csv[n].authors = join(<< ";", " " >>, fetched[n].authors)
         /\ csv[n].institutions = join(<< ";", " " >>, fetched[n].institutions)
         /\ split(csv[n].authors, << ";", " " >>) = fetched[n].authors
         /\ split(csv[n].institutions, << ";", " " >>) = fetched[n].institutions

\* --------------------------------------------------------------------- C22
\* The number a sequence of decimal digits stands for
DigitValue(c) == CHOOSE d \in 0..9 : Digits[d + 1] = c
RECURSIVE DecimalValue(_)
DecimalValue(digits) ==
  IF digits = << >> THEN 0
  ELSE 10 * DecimalValue(SubSeq(digits, 1, Len(digits) - 1))
         + DigitValue(digits[Len(digits)])

\* C22: the document has one card per evaluated topic, in the order of the
\* list, the n-th card with rank n; the card's score reads "Score: ", the
\* entry's total in decimal, "/15"; the card has one related-paper block per
\* related paper of the topic, in their order.
OneCardPerTopicWithScoreAndPapers ==
  (pc = "rendered") =>
    /\ Len(html) = Len(evaluated_topics)
    /\ \A n \in 1..Len(html) :
         LET card == html[n]
             item == evaluated_topics[n]
             digits == SubSeq(card.score, 8, Len(card.score) - 3)
         IN  /\ card.topic = item.topic.id
             /\ card.rank = << "#", Digits[n + 1] >>
             /\ SubSeq(card.score, 1, 7) = << "S", "c", "o", "r", "e", ":", " " >>
             /\ SubSeq(card.score, Len(card.score) - 2, Len(card.score))
                  = << "/", "1", "5" >>
             /\ digits # << >>
             /\ DecimalValue(digits) = item.evaluation.total_score
             /\ (item.evaluation.total_score = 12)
                  => card.score
                       = << "S", "c", "o", "r", "e", ":", " ", "1", "2", "/", "1", "5" >>
             /\ Len(card.papers) = Len(item.topic.related_papers)
             /\ \A k \in 1..Len(card.papers) :
                  card.papers[k].title = item.topic.related_papers[k].title

\* two cards: total 12 with two related papers, then a topic without any
TwoCardsRankedWithPaperBlocks ==
  /\ pc = "rendered"
  /\ Len(html) = 2
  /\ html[1].rank = << "#", "1" >>
  /\ html[1].score = << "S", "c", "o", "r", "e", ":", " ", "1", "2", "/", "1", "5" >>
  /\ html[1].topic = 2
  /\ Len(html[1].papers) = 2
  /\ html[2].rank = << "#", "2" >>
  /\ html[2].papers = << >>

\* --------------------------------------------------------------------- C26
\* The paper of this run that a related-paper block links to
PaperLinked(block) == CHOOSE paper \in Range(papers) : paper.url = block.link

\* C26: for every related paper taken from the vector store, the card shows
\* the authors the collector recorded for that paper: its first three names
\* in order, joined with ", ", and " et al." behind them only when it has
\* more than three.
ReportShowsRecordedAuthors ==
  (pc = "rendered") =>
    \A n \in 1..Len(html) : \A k \in 1..Len(html[n].papers) :
      LET recorded == PaperLinked(html[n].papers[k]).authors
      IN  (recorded # << >>) =>
            html[n].papers[k].authors_line
              = Some(join(<< ",", " " >>, SubSeq(recorded, 1, Min(3, Len(recorded))))
                       \o (IF Len(recorded) > 3
                             THEN << " ", "e", "t", " ", "a", "l", "." >> ELSE << >>))

====
